---- MODULE Spec2Model ----
\* Federated tool broker (tools/mcp_tools_manager.py) and the single-turn
\* tool-use loop (agents/base_agent.py, agents/customer_support/app.py).
\*
\* Python dicts are insertion-ordered: a dict is modelled as a sequence of
\* entries with pairwise distinct `name` fields (the key).  Strings built by
\* the program are modelled as records of their parts; strings received from
\* a provider or from the LLM are drawn from small sets.  Every awaited
\* network request is answered nondeterministically.
EXTENDS Integers, Sequences, FiniteSets, TLC

VARIABLES
    servers,          \* MCPToolsManager.servers : provider name -> descriptor
    tools,            \* MCPToolsManager.tools   : tool name -> tool descriptor
    schemas_cached,   \* CustomerSupportAgentApp.schemas_cached
    table_schemas,    \* CustomerSupportAgentApp.table_schemas : table -> schema text
    pc,               \* position of the operation in progress ("idle" between operations)
    disc,             \* frame of the running discover_tools pass
    hp,               \* frame of the running check_servers_health pass
    callres,          \* outcome of the last call_tool / add_server
    turn,             \* locals of the chat turn in progress
    response,         \* what the chat endpoint hands to its caller
    net,              \* requests sent since the operation in progress began
    given,            \* what a scenario fixes beforehand (file, answers, maximum)
    other,            \* a second request in flight beside the one at pc
    hist,             \* what a scenario remembers of its earlier steps
    flight            \* requests sent and not yet answered, where a scenario
                      \* takes sending and answering as two steps

vars == <<servers, tools, schemas_cached, table_schemas, pc, disc, hp,
          callres, turn, response, net, given, other, hist, flight>>

\* the variables only the scenario specifications use
scn == <<given, other, hist, flight>>

-----------------------------------------------------------------------------
\* Bounds of the model.

\* longest "tools" list a provider returns
MaxTools == 2
\* longest "content" list of a call-tool response envelope
MaxContent == 2
\* longest content list of an LLM reply
MaxItems == 2
\* longest conversation handed to the chat endpoint
MaxMsgs == 2

-----------------------------------------------------------------------------
\* Value domains.

ServerNames == {"db", "weather"}
ToolNames == {"list_tables", "execute_query"}
\* names the LLM may ask for: the catalog's names and one no provider offers
LlmToolNames == ToolNames \cup {"schedule_meeting"}
ToolInput == "{}"

\* marks a key that a payload item does not have
Missing == "<missing>"

EmptyText == ""
TablesText == "1. **customers**"
RowsText == "| name | total | / | --- | --- | / | ann | 3 |"
ProviderTexts == {EmptyText, TablesText, RowsText}
LlmTexts == {EmptyText, "Hello"}

\* mcp.json with one well-formed entry per name under "mcpServers"
WellFormed(names) ==
    [kind |-> "ok",
     entries |-> [i \in 1..Len(names) |-> [name |-> names[i], shape |-> "dict"]]]

\* the configurations the process is started with
Configs == {WellFormed(<<>>), WellFormed(<<"db">>), WellFormed(<<"db", "weather">>)}

-----------------------------------------------------------------------------
\* Python dict operations on a sequence of entries keyed by `name`.

DictKeys(d) == [i \in 1..Len(d) |-> d[i].name]

KeySet(d) == {d[i].name : i \in 1..Len(d)}

DictHas(d, k) == k \in KeySet(d)

DictGet(d, k) == d[CHOOSE i \in 1..Len(d) : d[i].name = k]

\* an assignment that leaves an existing key as it is
DictPut_FirstWins(d, v) == IF DictHas(d, v.name) THEN d ELSE Append(d, v)

\* d[v.name] = v : an existing key keeps its position, a new key is appended
DictPut(d, v) ==
    IF DictHas(d, v.name)
    THEN [i \in 1..Len(d) |-> IF d[i].name = v.name THEN v ELSE d[i]]
    ELSE Append(d, v)

\* del d[k]
DictDel(d, k) == SelectSeq(d, LAMBDA e : e.name # k)

\* ', '.join(names)
RECURSIVE JoinComma(_)
JoinComma(names) ==
    IF Len(names) = 0 THEN <<>>
    ELSE IF Len(names) = 1 THEN names
    ELSE <<Head(names), ", ">> \o JoinComma(Tail(names))

SeqsUpTo(S, n) == UNION {[1..k -> S] : k \in 0..n}

-----------------------------------------------------------------------------
\* Strings the program returns, as records of their parts.

\* a text passed through unchanged
Text(t) == [kind |-> "text", text |-> t, tool |-> "", detail |-> <<>>]

\* f"Tool '{tool_name}' not found. Available tools: {', '.join(available_tools)}"
NotFoundText(tool_name, available_tools) ==
    [kind |-> "not_found", text |-> "", tool |-> tool_name,
     detail |-> JoinComma(available_tools)]

\* f"Error calling {tool_name}: {str(e)}"
ErrorText(tool_name, cause) ==
    [kind |-> "error", text |-> "", tool |-> tool_name, detail |-> <<cause>>]

\* Python truthiness of a string: only the empty string is false
Truthy(s) == ~(s.kind = "text" /\ s.text = EmptyText)

-----------------------------------------------------------------------------
\* Responses of a provider.

\* an item of the "tools" list: a dict with or without a "name" key, or a
\* value that is no dict
ToolItems ==
    [shape : {"dict"}, name : ToolNames \cup {Missing}]
        \cup {[shape |-> "other", name |-> Missing]}

\* answer to GET listTools: a transport error, timeout, non-success status or
\* unparsable body ("fail"), or a body with a "tools" list
ListResponses ==
    {[kind |-> "fail", tools |-> <<>>]}
        \cup [kind : {"ok"}, tools : SeqsUpTo(ToolItems, MaxTools)]

\* an item of the "content" list of a call-tool envelope
ContentItems == [text : ProviderTexts \cup {Missing}]

\* answer to POST callTool: transport error or timeout, non-success status, a
\* body without "content", or a body with a "content" list
CallResponses ==
    {[kind |-> k, content |-> <<>>] : k \in {"transport", "status", "no_content"}}
        \cup [kind : {"ok"}, content : SeqsUpTo(ContentItems, MaxContent)]

\* answer to GET health: a status code, or "raise" for a transport error or timeout
HealthResponses == {"200", "503", "raise"}

-----------------------------------------------------------------------------
\* MCPToolsManager

\* the loop of load_configuration over mcpServers.items(): an entry that is
\* no dict (or whose "transport" is none) raises at its .get, which ends the
\* loop with the entries before it registered
RECURSIVE LoadEntries(_, _)
LoadEntries(registry, entries) ==
    IF Len(entries) = 0 THEN registry
    ELSE IF Head(entries).shape # "dict" THEN registry
    ELSE LoadEntries(DictPut(registry, [name |-> Head(entries).name]),
                     Tail(entries))

\* load_configuration on the registry __init__ made: a file that is absent,
\* does not parse or holds no object raises before the loop; every
\* exception is caught inside load_configuration
load_configuration(config) ==
    IF config.kind # "ok" THEN <<>> ELSE LoadEntries(<<>>, config.entries)

\* _get_server_tools: raises on a failed request and on an item that is no
\* dict (item assignment fails); otherwise tags every item with the provider
_get_server_tools(server, resp) ==
    IF resp.kind # "ok" \/ \E i \in 1..Len(resp.tools) : resp.tools[i].shape # "dict"
    THEN [raised |-> TRUE, tools |-> <<>>]
    ELSE [raised |-> FALSE,
          tools |-> [i \in 1..Len(resp.tools) |->
                        [name |-> resp.tools[i].name, server_name |-> server.name]]]

\* for tool in tools: self.tools[tool['name']] = tool
\* stops with KeyError at the first item without a name, keeping what it
\* inserted before
\* the merge appending every item, as a list would, instead of keying by name
RECURSIVE MergeTools_Append(_, _)
MergeTools_Append(catalog, items) ==
    IF Len(items) = 0 THEN [raised |-> FALSE, tools |-> catalog]
    ELSE IF Head(items).name = Missing THEN [raised |-> TRUE, tools |-> catalog]
    ELSE MergeTools_Append(Append(catalog, Head(items)), Tail(items))

RECURSIVE MergeTools(_, _)
MergeTools(catalog, items) ==
    IF Len(items) = 0 THEN [raised |-> FALSE, tools |-> catalog]
    ELSE IF Head(items).name = Missing THEN [raised |-> TRUE, tools |-> catalog]
    ELSE MergeTools(DictPut(catalog, Head(items)), Tail(items))

\* DiscoverOne without the except clause: the provider's failure leaves
\* discover_tools as an exception
DiscoverOne_NoExcept(catalog, server, resp) ==
    LET got == _get_server_tools(server, resp)
        merged == MergeTools(catalog, got.tools)
    IN  [tools |-> IF got.raised THEN catalog ELSE merged.tools,
         entry |-> [name |-> server.name, tools |-> got.tools],
         failed |-> got.raised \/ merged.raised,
         raised |-> got.raised \/ merged.raised]

\* one iteration of the loop of discover_tools, for provider `server`
\* answering `resp`: the new catalog, the provider's entry of all_tools,
\* whether the except clause ran, and whether an exception leaves the loop
DiscoverOne(catalog, server, resp) ==
    LET got == _get_server_tools(server, resp)
        merged == MergeTools(catalog, got.tools)
    IN  IF got.raised
        THEN [tools |-> catalog, entry |-> [name |-> server.name, tools |-> <<>>],
              failed |-> TRUE, raised |-> FALSE]
        ELSE IF merged.raised
        THEN [tools |-> merged.tools, entry |-> [name |-> server.name, tools |-> <<>>],
              failed |-> TRUE, raised |-> FALSE]
        ELSE [tools |-> merged.tools,
              entry |-> [name |-> server.name, tools |-> got.tools],
              failed |-> FALSE, raised |-> FALSE]

\* call_tool: the value returned (or the exception), and the requests sent
CallEnvelope(tool_name, resp) ==
    IF resp.kind = "transport" THEN ErrorText(tool_name, "transport")
    ELSE IF resp.kind = "status" THEN ErrorText(tool_name, "status")
    ELSE IF resp.kind = "no_content" THEN ErrorText(tool_name, "KeyError: content")
    ELSE IF Len(resp.content) = 0 THEN ErrorText(tool_name, "IndexError")
    ELSE IF resp.content[1].text = Missing THEN ErrorText(tool_name, "KeyError: text")
    ELSE Text(resp.content[1].text)

\* call_tool without the membership test: an unknown name is a KeyError
call_tool_NoLookup(catalog, registry, tool_name, resp) ==
    IF ~DictHas(catalog, tool_name)
    THEN [raised |-> TRUE, sent |-> <<>>,
          result |-> ErrorText(tool_name, "KeyError: tool")]
    ELSE [raised |-> FALSE,
          sent |-> <<[op |-> "callTool",
                      server |-> DictGet(catalog, tool_name).server_name,
                      tool |-> tool_name]>>,
          result |-> CallEnvelope(tool_name, resp)]

\* call_tool posting a second time when the first answer is a failure
call_tool_Retry(catalog, registry, tool_name, resp) ==
    IF ~DictHas(catalog, tool_name)
    THEN [raised |-> FALSE, sent |-> <<>>,
          result |-> NotFoundText(tool_name, DictKeys(catalog))]
    ELSE LET tool == DictGet(catalog, tool_name)
             req == [op |-> "callTool", server |-> tool.server_name,
                     tool |-> tool_name]
         IN  IF ~DictHas(registry, tool.server_name)
             THEN [raised |-> TRUE, sent |-> <<>>,
                   result |-> ErrorText(tool_name, "KeyError: server")]
             ELSE [raised |-> FALSE,
                   sent |-> IF resp.kind = "ok" THEN <<req>> ELSE <<req, req>>,
                   result |-> CallEnvelope(tool_name, resp)]

call_tool(catalog, registry, tool_name, resp) ==
    IF ~DictHas(catalog, tool_name)
    THEN [raised |-> FALSE, sent |-> <<>>,
          result |-> NotFoundText(tool_name, DictKeys(catalog))]
    ELSE LET tool == DictGet(catalog, tool_name)
         IN  IF ~DictHas(registry, tool.server_name)
             THEN [raised |-> TRUE, sent |-> <<>>,
                   result |-> ErrorText(tool_name, "KeyError: server")]
             ELSE [raised |-> FALSE,
                   sent |-> <<[op |-> "callTool", server |-> tool.server_name,
                               tool |-> tool_name]>>,
                   result |-> CallEnvelope(tool_name, resp)]

\* HealthOne taking any answer for healthy, whatever its status code
HealthOne_AnyAnswer(server, resp) ==
    [name |-> server.name, healthy |-> (resp # "raise")]

\* one iteration of the loop of check_servers_health
HealthOne(server, resp) == [name |-> server.name, healthy |-> (resp = "200")]

-----------------------------------------------------------------------------
\* i: the provider the loop is at; failed: the providers whose except
\* clause ran in this pass; raised: an exception left the pass
NoFrame == [i |-> 0, all_tools |-> <<>>, failed |-> {}, raised |-> FALSE]
NewFrame == [i |-> 1, all_tools |-> <<>>, failed |-> {}, raised |-> FALSE]
\* probes: the answer each probe of this pass got
NoHealth == [i |-> 0, health_status |-> <<>>, probes |-> <<>>]
NewHealth == [i |-> 1, health_status |-> <<>>, probes |-> <<>>]
NoResp == [kind |-> "none", content |-> <<>>]
\* resp: the answer the provider would give (given, when a request was sent)
NoCall == [op |-> "none", tool |-> "", raised |-> FALSE, result |-> Text(EmptyText),
           ok |-> FALSE, resp |-> NoResp]
\* schema_calls, tool_calls: how often the turn has entered call_mcp_tool
\* from _get_table_schemas and for the LLM's request
NoTurn == [messages |-> <<>>, llm_messages |-> <<>>, tables |-> <<>>,
           claude_tools |-> <<>>, reply |-> <<>>, tool_use |-> <<>>,
           text |-> <<>>, tool_result |-> <<>>,
           schema_calls |-> 0, tool_calls |-> 0]
NoBody == [success |-> <<>>, message |-> <<>>, detail |-> <<>>,
           reasoning_step |-> <<>>, chart_data |-> <<>>]
NoResponse == [http |-> 0, body |-> NoBody]

\* nothing fixed beforehand, no second request, nothing remembered
NoGiven == [config |-> <<>>, answers |-> <<>>, max_turns |-> <<>>]
NoOther == [pc |-> "none", i |-> 0, tables |-> <<>>, seen |-> <<>>]
NoHist == [before |-> <<>>, first |-> <<>>, runs |-> 0]

\* no operation is in progress
Quiet ==
    /\ pc = "idle"
    /\ disc = NoFrame
    /\ hp = NoHealth
    /\ callres = NoCall
    /\ turn = NoTurn
    /\ response = NoResponse
    /\ net = <<>>

Init ==
    /\ \E config \in Configs : servers = load_configuration(config)
    /\ tools = <<>>
    /\ schemas_cached = FALSE
    /\ table_schemas = <<>>
    /\ Quiet
    /\ given = NoGiven
    /\ other = NoOther
    /\ hist = NoHist
    /\ flight = {}

app == <<schemas_cached, table_schemas>>

\* ---- discover_tools ----

DiscoverPcs == {"discover", "schema_discover", "turn_discover", "llm_discover"}

DiscoverRunning ==
    pc \in DiscoverPcs /\ disc.i >= 1 /\ disc.i <= Len(servers) /\ ~disc.raised
DiscoverDone == pc \in DiscoverPcs /\ disc.i > Len(servers) /\ ~disc.raised

\* a caller starts a discovery pass: all_tools = {}
DiscoverToolsCall ==
    /\ pc = "idle"
    /\ pc' = "discover"
    /\ disc' = NewFrame
    /\ net' = <<>>
    /\ UNCHANGED <<scn, servers, tools, app, hp, callres, turn, response>>

\* the frame of the pass once the iteration for `server` has ended as `one`
FrameAfter(frame, server, one) ==
    IF one.raised
    THEN [frame EXCEPT !.raised = TRUE]
    ELSE [i |-> frame.i + 1,
          all_tools |-> DictPut(frame.all_tools, one.entry),
          failed |-> IF one.failed
                     THEN frame.failed \cup {server.name}
                     ELSE frame.failed,
          raised |-> FALSE]

\* the loop body for the next provider of the registry, which answers resp
DiscoverStepWith(resp) ==
    /\ DiscoverRunning
    /\ LET server == servers[disc.i]
           one == DiscoverOne(tools, server, resp)
       IN  /\ tools' = one.tools
           /\ disc' = FrameAfter(disc, server, one)
           /\ net' = Append(net, [op |-> "listTools", server |-> server.name,
                                  tool |-> ""])
    /\ UNCHANGED <<scn, servers, app, pc, hp, callres, turn, response>>

DiscoverStep == \E resp \in ListResponses : DiscoverStepWith(resp)

\* return all_tools
DiscoverToolsReturn ==
    /\ pc = "discover"
    /\ DiscoverDone
    /\ pc' = "idle"
    /\ disc' = NoFrame
    /\ UNCHANGED <<scn, servers, tools, app, hp, callres, turn, response, net>>

\* ---- call_tool ----

\* call_tool dropping the catalog entry of a tool whose provider failed
CallTool_Evicting ==
    /\ pc = "idle"
    /\ \E tool_name \in LlmToolNames, resp \in CallResponses :
         LET r == call_tool(tools, servers, tool_name, resp)
         IN  /\ callres' = [op |-> "call_tool", tool |-> tool_name,
                            raised |-> r.raised, result |-> r.result, ok |-> FALSE,
                            resp |-> IF r.sent = <<>> THEN NoResp ELSE resp]
             /\ net' = r.sent
             /\ tools' = IF r.result.kind = "error" THEN DictDel(tools, tool_name)
                         ELSE tools
    /\ pc' = "call_done"
    /\ UNCHANGED <<scn, servers, app, disc, hp, turn, response>>

CallTool ==
    /\ pc = "idle"
    /\ \E tool_name \in LlmToolNames, resp \in CallResponses :
         LET r == call_tool(tools, servers, tool_name, resp)
         IN  /\ callres' = [op |-> "call_tool", tool |-> tool_name,
                            raised |-> r.raised, result |-> r.result, ok |-> FALSE,
                            resp |-> IF r.sent = <<>> THEN NoResp ELSE resp]
             /\ net' = r.sent
    /\ pc' = "call_done"
    /\ UNCHANGED <<scn, servers, tools, app, disc, hp, turn, response>>

CallToolReturn ==
    /\ pc = "call_done"
    /\ pc' = "idle"
    /\ callres' = NoCall
    /\ UNCHANGED <<scn, servers, tools, app, disc, hp, turn, response, net>>

\* ---- add_server ----

AddServer ==
    /\ pc = "idle"
    /\ \E server_name \in ServerNames, resp \in ListResponses :
         LET server == [name |-> server_name]
             registered == DictPut(servers, server)
             got == _get_server_tools(server, resp)
             merged == MergeTools(tools, got.tools)
             failed == got.raised \/ merged.raised
         IN  /\ servers' = IF failed THEN DictDel(registered, server_name)
                           ELSE registered
             /\ tools' = IF got.raised THEN tools ELSE merged.tools
             /\ callres' = [op |-> "add_server", tool |-> server_name,
                            raised |-> FALSE, result |-> Text(EmptyText),
                            ok |-> ~failed,
                            resp |-> [kind |-> resp.kind, content |-> <<>>]]
             /\ net' = <<[op |-> "listTools", server |-> server_name, tool |-> ""]>>
    /\ pc' = "add_done"
    /\ UNCHANGED <<scn, app, disc, hp, turn, response>>

AddServerReturn ==
    /\ pc = "add_done"
    /\ pc' = "idle"
    /\ callres' = NoCall
    /\ UNCHANGED <<scn, servers, tools, app, disc, hp, turn, response, net>>

\* ---- check_servers_health ----

HealthPcs == {"health", "chat_health"}

HealthRunning == pc \in HealthPcs /\ hp.i >= 1 /\ hp.i <= Len(servers)
HealthDone == pc \in HealthPcs /\ hp.i > Len(servers)

CheckServersHealthCall ==
    /\ pc = "idle"
    /\ pc' = "health"
    /\ hp' = NewHealth
    /\ net' = <<>>
    /\ UNCHANGED <<scn, servers, tools, app, disc, callres, turn, response>>

\* the frame of the pass once the probe of `server` has ended with resp
HealthAfter(frame, server, resp) ==
    [i |-> frame.i + 1,
     health_status |-> DictPut(frame.health_status, HealthOne(server, resp)),
     probes |-> Append(frame.probes, resp)]

HealthStep ==
    /\ HealthRunning
    /\ \E resp \in HealthResponses :
         LET server == servers[hp.i]
         IN  /\ hp' = HealthAfter(hp, server, resp)
             /\ net' = Append(net, [op |-> "health", server |-> server.name,
                                    tool |-> ""])
    /\ UNCHANGED <<scn, servers, tools, app, pc, disc, callres, turn, response>>

CheckServersHealthReturn ==
    /\ pc = "health"
    /\ HealthDone
    /\ pc' = "idle"
    /\ hp' = NoHealth
    /\ UNCHANGED <<scn, servers, tools, app, disc, callres, turn, response, net>>

-----------------------------------------------------------------------------
\* The chat turn: BaseAgentApp.chat_endpoint and
\* CustomerSupportAgentApp.handle_chat_with_tools

Greeting == Text("Hello! I can help with database queries, weather, and meeting scheduling.")
Apology == Text("Sorry, I encountered an error. Please try again.")
NoApiKey == Text("Claude API key not configured")
EndpointError == Text("Sorry, I encountered an error.")
Unavailable == Text("MCP servers unavailable")

\* values of components.memory.session_memory.max_turns a config.json may
\* hold; DefaultMaxTurns is used when the key is absent
DefaultMaxTurns == 5
MaxTurnsValues == {0, 1, DefaultMaxTurns}

\* a dict returned by handle_chat_with_tools, sent with status 200; an
\* absent key is an empty sequence
Envelope(success, message, step, chart) ==
    [http |-> 200,
     body |-> [success |-> <<success>>, message |-> <<message>>, detail |-> <<>>,
               reasoning_step |-> step, chart_data |-> chart]]

\* an HTTPException leaving the endpoint
HttpError(status, detail) ==
    [http |-> status, body |-> [NoBody EXCEPT !.detail = <<detail>>]]

\* chat_endpoint: an exception raised inside its try block, HTTPException
\* included, reaches `except Exception` and is replaced
chat_endpoint_except(status, detail) == HttpError(500, EndpointError)

\* any(health_status.values())
AnyHealthy(health_status) ==
    \E i \in 1..Len(health_status) : health_status[i].healthy

\* call_mcp_tool: call_tool with its exceptions turned into an error text
call_mcp_tool(catalog, registry, tool_name, resp) ==
    LET r == call_tool(catalog, registry, tool_name, resp)
    IN  [sent |-> r.sent,
         result |-> IF r.raised THEN ErrorText(tool_name, r.result.detail[1])
                    ELSE r.result]

\* extract_table_names_simple: the text between the ** markers of every
\* line that holds a digit
extract_table_names_simple(text) ==
    IF text.kind = "text" /\ text.text = TablesText THEN <<"customers">> ELSE <<>>

\* messages[-max_turns:] when len(messages) > max_turns; a slice from -0
\* starts at index 0
Truncate(messages, max_turns) ==
    IF Len(messages) > max_turns
    THEN IF max_turns = 0 THEN messages
         ELSE SubSeq(messages, Len(messages) - max_turns + 1, Len(messages))
    ELSE messages

\* get_all_tools_for_llm after its discovery pass, then claude_tools: one
\* schema per catalog entry, in catalog order
claude_tools_of(catalog) == DictKeys(catalog)

\* content items of an LLM reply
ReplyItems ==
    [type : {"tool_use"}, name : LlmToolNames, text : {Missing}]
        \cup [type : {"text"}, name : {Missing}, text : LlmTexts]

LlmReplies == SeqsUpTo(ReplyItems, MaxItems)

\* the scanning loop over response.content: each kind keeps the item seen last
RECURSIVE ScanKind(_, _, _)
ScanKind(content, kind, found) ==
    IF Len(content) = 0 THEN found
    ELSE ScanKind(Tail(content), kind,
                  IF Head(content).type = kind THEN <<Head(content)>> ELSE found)

\* the scan giving way to a text item: no tool_use is kept once text is seen
tool_use_content_TextFirst(content) ==
    IF \E i \in 1..Len(content) : content[i].type = "text"
    THEN <<>>
    ELSE ScanKind(content, "tool_use", <<>>)

\* the scan never keeping a tool_use item
tool_use_content_None(content) == <<>>

tool_use_content(content) == ScanKind(content, "tool_use", <<>>)
text_content(content) == ScanKind(content, "text", <<>>)

\* name.startswith(('execute_', 'describe_', 'list_', 'get_table'))
IsDatabaseName(name) ==
    name \in {"execute_query", "describe_table", "list_tables", "get_table_data"}

reasoning_step_of(tool) ==
    [type |-> "tool",
     header |-> IF IsDatabaseName(tool.name) THEN "Database Operation"
                ELSE "Tool Operation",
     content |-> [tool |-> tool.name, args |-> ToolInput]]

\* generate_chart_data: a chart for a text holding a table with a numeric
\* column, None otherwise
generate_chart_data(tool_result) ==
    IF tool_result.kind = "text" /\ tool_result.text = RowsText
    THEN <<[type |-> "pie", title |-> "total by name"]>>
    ELSE <<>>

\* the chart derived for every tool, not only for the data-query class
chart_data_of_AnyTool(tool, tool_result) == generate_chart_data(tool_result)

\* no chart derived for any tool
chart_data_of_Never(tool, tool_result) == <<>>

chart_data_of(tool, tool_result) ==
    IF tool.name \in {"execute_query", "get_table_data"}
    THEN generate_chart_data(tool_result)
    ELSE <<>>

\* the branch taken once tool_result is known
ToolEnvelope(tool, tool_result) ==
    IF Truthy(tool_result)
    THEN Envelope(TRUE, tool_result, <<reasoning_step_of(tool)>>,
                  chart_data_of(tool, tool_result))
    ELSE Envelope(TRUE, Greeting, <<>>, <<>>)

\* the text branch missing: every reply without tool_use gets the greeting
TextEnvelope_Greeting(text) == Envelope(TRUE, Greeting, <<>>, <<>>)

\* the branch taken when the reply holds no tool_use item
TextEnvelope(text) ==
    IF text # <<>>
    THEN Envelope(TRUE, Text(text[1].text), <<>>, <<>>)
    ELSE Envelope(TRUE, Greeting, <<>>, <<>>)

LlmRequest == [op |-> "llm", server |-> "", tool |-> ""]

ListRequest(server_name) == [op |-> "listTools", server |-> server_name, tool |-> ""]

\* POST /api/chat: the empty conversation is refused, otherwise the health
\* pass starts
ChatEndpoint ==
    /\ pc = "idle"
    /\ net' = <<>>
    /\ \E n \in 0..MaxMsgs :
         /\ turn' = [NoTurn EXCEPT !.messages = [i \in 1..n |-> i]]
         /\ IF n = 0
            THEN /\ response' = chat_endpoint_except(400, Text("No messages provided"))
                 /\ pc' = "chat_done"
                 /\ hp' = hp
            ELSE /\ response' = response
                 /\ pc' = "chat_health"
                 /\ hp' = NewHealth
    /\ UNCHANGED <<scn, servers, tools, app, disc, callres>>

\* the health pass is over: refuse when no provider is healthy, otherwise
\* enter handle_chat_with_tools
ChatHealthChecked ==
    /\ pc = "chat_health"
    /\ HealthDone
    /\ IF ~AnyHealthy(hp.health_status)
       THEN /\ response' = chat_endpoint_except(500, Unavailable)
            /\ pc' = "chat_done"
            /\ hp' = hp
       ELSE /\ response' = response
            /\ pc' = "chat_schemas"
            /\ hp' = NoHealth
    /\ UNCHANGED <<scn, servers, tools, app, disc, callres, turn, net>>

\* _get_table_schemas: the cache is used when filled, otherwise the schema
\* discovery starts with a discovery pass
GetTableSchemas ==
    /\ pc = "chat_schemas"
    /\ IF schemas_cached
       THEN pc' = "chat_prepare" /\ disc' = disc
       ELSE pc' = "schema_discover" /\ disc' = NewFrame
    /\ UNCHANGED <<scn, servers, tools, app, hp, callres, turn, response, net>>

\* the discovery pass of _get_table_schemas returns; its value is not kept
SchemaDiscovered ==
    /\ pc = "schema_discover"
    /\ DiscoverDone
    /\ pc' = "schema_list"
    /\ disc' = NoFrame
    /\ UNCHANGED <<scn, servers, tools, app, hp, callres, turn, response, net>>

\* call_mcp_tool('list_tables', {}) and extract_table_names_simple
SchemaListTables ==
    /\ pc = "schema_list"
    /\ \E resp \in CallResponses :
         LET r == call_mcp_tool(tools, servers, "list_tables", resp)
             tables == extract_table_names_simple(r.result)
         IN  /\ net' = net \o r.sent
             /\ turn' = [turn EXCEPT !.tables = tables,
                                     !.schema_calls = turn.schema_calls + 1]
             /\ IF Len(tables) = 0
                THEN schemas_cached' = TRUE /\ pc' = "chat_prepare"
                ELSE schemas_cached' = schemas_cached /\ pc' = "schema_describe"
    /\ UNCHANGED <<scn, servers, tools, table_schemas, disc, hp, callres, response>>

\* call_mcp_tool('describe_table', ...) for the next table of the list
SchemaDescribe ==
    /\ pc = "schema_describe"
    /\ \E resp \in CallResponses :
         LET table == Head(turn.tables)
             r == call_mcp_tool(tools, servers, "describe_table", resp)
         IN  /\ net' = net \o r.sent
             /\ table_schemas' = IF Truthy(r.result)
                                 THEN DictPut(table_schemas,
                                              [name |-> table, schema |-> r.result])
                                 ELSE table_schemas
             /\ turn' = [turn EXCEPT !.tables = Tail(turn.tables),
                                     !.schema_calls = turn.schema_calls + 1]
             /\ IF Len(turn.tables) = 1
                THEN schemas_cached' = TRUE /\ pc' = "chat_prepare"
                ELSE schemas_cached' = schemas_cached /\ pc' = pc
    /\ UNCHANGED <<scn, servers, tools, disc, hp, callres, response>>

\* truncation to max_turns, the API key check, then discover_tools
TurnPrepareWith(max_turns) ==
    /\ pc = "chat_prepare"
    /\ \E api_key \in BOOLEAN :
         /\ turn' = [turn EXCEPT !.llm_messages = Truncate(turn.messages, max_turns)]
         /\ IF ~api_key
            THEN /\ response' = Envelope(FALSE, NoApiKey, <<>>, <<>>)
                 /\ pc' = "chat_done"
                 /\ disc' = disc
            ELSE /\ response' = response
                 /\ pc' = "turn_discover"
                 /\ disc' = NewFrame
    /\ UNCHANGED <<scn, servers, tools, app, hp, callres, net>>

\* the configured maximum is whatever config.json holds
TurnPrepare == \E max_turns \in MaxTurnsValues : TurnPrepareWith(max_turns)

\* get_mcp_tools: get_all_tools_for_llm starts with a discovery pass of its own
GetMcpTools ==
    /\ pc = "turn_discover"
    /\ DiscoverDone
    /\ pc' = "llm_discover"
    /\ disc' = NewFrame
    /\ UNCHANGED <<scn, servers, tools, app, hp, callres, turn, response, net>>

\* client.messages.create(system, messages, tools) is sent
LlmCall ==
    /\ pc = "llm_discover"
    /\ DiscoverDone
    /\ pc' = "awaiting_llm"
    /\ turn' = [turn EXCEPT !.claude_tools = claude_tools_of(tools)]
    /\ net' = Append(net, LlmRequest)
    /\ disc' = NoFrame
    /\ UNCHANGED <<scn, servers, tools, app, hp, callres, response>>

\* the LLM call raises
LlmFails ==
    /\ pc = "awaiting_llm"
    /\ response' = Envelope(FALSE, Apology, <<>>, <<>>)
    /\ pc' = "chat_done"
    /\ turn' = [turn EXCEPT !.messages = <<>>, !.llm_messages = <<>>,
                            !.claude_tools = <<>>]
    /\ UNCHANGED <<scn, servers, tools, app, disc, hp, callres, net>>

\* the LLM replies: its content is scanned; without a tool_use item the turn
\* ends here.  The request's locals are not read again.
LlmReplies_ ==
    /\ pc = "awaiting_llm"
    /\ \E content \in LlmReplies :
         /\ turn' = [turn EXCEPT !.reply = content,
                                 !.tool_use = tool_use_content(content),
                                 !.text = text_content(content),
                                 !.messages = <<>>, !.llm_messages = <<>>,
                                 !.claude_tools = <<>>]
         /\ IF tool_use_content(content) # <<>>
            THEN response' = response /\ pc' = "tool_requested"
            ELSE response' = TextEnvelope(text_content(content)) /\ pc' = "chat_done"
    /\ UNCHANGED <<scn, servers, tools, app, disc, hp, callres, net>>

\* tool_use_content is set: call_mcp_tool(tool_use_content.name,
\* tool_use_content.input) is entered.  The reply's content list is not read
\* again: only tool_use_content and text_content are.
ToolRequested ==
    /\ pc = "tool_requested"
    /\ pc' = "tool_calling"
    /\ turn' = [turn EXCEPT !.reply = <<>>]
    /\ UNCHANGED <<scn, servers, tools, app, disc, hp, callres, response, net>>

\* call_mcp_tool returns and the envelope is built from its result
ToolReturns ==
    /\ pc = "tool_calling"
    /\ \E resp \in CallResponses :
         LET tool == turn.tool_use[1]
             r == call_mcp_tool(tools, servers, tool.name, resp)
         IN  /\ net' = net \o r.sent
             /\ turn' = [turn EXCEPT !.tool_result = <<r.result>>,
                                     !.tool_calls = turn.tool_calls + 1]
             /\ response' = ToolEnvelope(tool, r.result)
    /\ pc' = "chat_done"
    /\ UNCHANGED <<scn, servers, tools, app, disc, hp, callres>>

\* the endpoint has answered
ChatReturn ==
    /\ pc = "chat_done"
    /\ pc' = "idle"
    /\ turn' = NoTurn
    /\ response' = NoResponse
    /\ hp' = NoHealth
    /\ UNCHANGED <<scn, servers, tools, app, disc, callres, net>>

-----------------------------------------------------------------------------
Next ==
    \/ DiscoverToolsCall
    \/ DiscoverStep
    \/ DiscoverToolsReturn
    \/ CallTool
    \/ CallToolReturn
    \/ AddServer
    \/ AddServerReturn
    \/ CheckServersHealthCall
    \/ HealthStep
    \/ CheckServersHealthReturn
    \/ ChatEndpoint
    \/ ChatHealthChecked
    \/ GetTableSchemas
    \/ SchemaDiscovered
    \/ SchemaListTables
    \/ SchemaDescribe
    \/ TurnPrepare
    \/ GetMcpTools
    \/ LlmCall
    \/ LlmFails
    \/ LlmReplies_
    \/ ToolRequested
    \/ ToolReturns
    \/ ChatReturn

Spec == Init /\ [][Next]_vars

-----------------------------------------------------------------------------
\* Truncation scenario: a turn with a conversation of up to MaxConv messages
\* and a configured maximum fixed beforehand, from the truncation to the LLM
\* request.

\* longest conversation of the truncation scenario
MaxConv == 8

HealthRequest(server_name) == [op |-> "health", server |-> server_name, tool |-> ""]

\* a turn that has passed the health check and found the schema cache filled
TruncInit ==
    /\ servers = load_configuration(WellFormed(<<"db">>))
    /\ tools = <<>>
    /\ schemas_cached = TRUE
    /\ table_schemas = <<>>
    /\ pc = "chat_prepare"
    /\ disc = NoFrame
    /\ hp = NoHealth
    /\ callres = NoCall
    /\ \E n \in 1..MaxConv : turn = [NoTurn EXCEPT !.messages = [i \in 1..n |-> i]]
    /\ response = NoResponse
    /\ net = <<HealthRequest("db")>>
    /\ \E max_turns \in 0..(MaxConv + 1) :
         given = [NoGiven EXCEPT !.max_turns = <<max_turns>>]
    /\ other = NoOther
    /\ hist = NoHist
    /\ flight = {}

TurnPrepareGiven ==
    /\ given.max_turns # <<>>
    /\ TurnPrepareWith(given.max_turns[1])

TruncNext ==
    \/ TurnPrepareGiven
    \/ DiscoverStep
    \/ GetMcpTools
    \/ LlmCall

TruncSpec == TruncInit /\ [][TruncNext]_vars

-----------------------------------------------------------------------------
\* Repeated-discovery scenario: every provider gives the same answer to each
\* list request, and discover_tools is called again and again.

\* catalogs left by earlier operations
StartCatalogs ==
    {<<>>,
     <<[name |-> "list_tables", server_name |-> "weather"]>>,
     <<[name |-> "execute_query", server_name |-> "db"],
       [name |-> "list_tables", server_name |-> "db"]>>}

IdemInit ==
    /\ \E config \in Configs : servers = load_configuration(config)
    /\ tools \in StartCatalogs
    /\ schemas_cached = FALSE
    /\ table_schemas = <<>>
    /\ Quiet
    /\ \E answers \in [1..Len(servers) -> ListResponses] :
         given = [NoGiven EXCEPT !.answers = <<answers>>]
    /\ other = NoOther
    /\ hist = NoHist
    /\ flight = {}

\* the provider the loop is at gives its fixed answer
GivenDiscoverStep ==
    /\ DiscoverRunning
    /\ given.answers # <<>>
    /\ DiscoverStepWith(given.answers[1][disc.i])

\* return all_tools; the scenario remembers the pass's outcome
RememberedDiscoverReturn ==
    /\ pc = "discover"
    /\ DiscoverDone
    /\ pc' = "idle"
    /\ disc' = NoFrame
    /\ hist' = [hist EXCEPT !.first = <<[tools |-> tools,
                                         all_tools |-> disc.all_tools]>>]
    /\ UNCHANGED <<servers, tools, app, hp, callres, turn, response, net,
                   given, other, flight>>

IdemNext ==
    \/ DiscoverToolsCall
    \/ GivenDiscoverStep
    \/ RememberedDiscoverReturn

IdemSpec == IdemInit /\ [][IdemNext]_vars

-----------------------------------------------------------------------------
\* Concurrent-reader scenario: while a discover_tools pass awaits a provider,
\* another request reads the catalog, as call_tool does before its own await.
\* A step of the model is the code between two awaits, so the requests
\* interleave step by step.

ReadInit ==
    /\ \E config \in Configs : servers = load_configuration(config)
    /\ tools \in StartCatalogs
    /\ schemas_cached = FALSE
    /\ table_schemas = <<>>
    /\ Quiet
    /\ given = NoGiven
    /\ other = NoOther
    /\ hist = NoHist
    /\ flight = {}

\* a pass starts; the scenario remembers the catalog it starts from and
\* forgets what was read during earlier passes
RememberedDiscoverCall ==
    /\ pc = "idle"
    /\ pc' = "discover"
    /\ disc' = NewFrame
    /\ net' = <<>>
    /\ hist' = [hist EXCEPT !.before = <<tools>>]
    /\ other' = NoOther
    /\ UNCHANGED <<servers, tools, app, hp, callres, turn, response, given,
                   flight>>

\* the other request enters call_tool while the pass is suspended: it tests
\* `tool_name not in self.tools` and reads self.tools
OtherReadsCatalog ==
    /\ pc = "discover"
    /\ disc.i >= 1
    /\ other.pc = "none"
    /\ other' = [other EXCEPT !.pc = "read", !.seen = <<tools>>]
    /\ UNCHANGED <<servers, tools, app, pc, disc, hp, callres, turn, response,
                   net, given, hist, flight>>

ReadNext ==
    \/ RememberedDiscoverCall
    \/ DiscoverStep
    \/ OtherReadsCatalog
    \/ DiscoverToolsReturn

ReadSpec == ReadInit /\ [][ReadNext]_vars

-----------------------------------------------------------------------------
\* Concurrent-turns scenario: two chat requests have passed the health check
\* and enter _get_table_schemas; the second request's position and locals
\* are in `other`.  net logs the requests of the turn at pc only.

SchemaInit ==
    /\ \E config \in Configs \ {WellFormed(<<>>)} :
         servers = load_configuration(config)
    /\ tools \in StartCatalogs
    /\ schemas_cached = FALSE
    /\ table_schemas = <<>>
    /\ pc = "chat_schemas"
    /\ disc = NoFrame
    /\ hp = NoHealth
    /\ callres = NoCall
    /\ turn = [NoTurn EXCEPT !.messages = <<1>>]
    /\ response = NoResponse
    /\ net = [i \in 1..Len(servers) |-> HealthRequest(servers[i].name)]
    /\ given = NoGiven
    /\ other = [NoOther EXCEPT !.pc = "chat_schemas"]
    /\ hist = NoHist
    /\ flight = {}

\* _get_table_schemas in the other request: the test of schemas_cached and,
\* when it is unset, the start of discover_tools
OtherGetTableSchemas ==
    /\ other.pc = "chat_schemas"
    /\ other' = IF schemas_cached
                THEN [other EXCEPT !.pc = "chat_prepare"]
                ELSE [other EXCEPT !.pc = "schema_discover", !.i = 1]
    /\ UNCHANGED <<servers, tools, app, pc, disc, hp, callres, turn, response,
                   net, given, hist, flight>>

\* the loop body of the other request's discover_tools; after the last
\* provider call_mcp_tool('list_tables', {}) is sent
OtherDiscoverStep ==
    /\ other.pc = "schema_discover"
    /\ other.i <= Len(servers)
    /\ \E resp \in ListResponses :
         tools' = DiscoverOne(tools, servers[other.i], resp).tools
    /\ other' = [other EXCEPT !.i = other.i + 1,
                              !.pc = IF other.i = Len(servers)
                                     THEN "schema_list" ELSE "schema_discover"]
    /\ UNCHANGED <<servers, app, pc, disc, hp, callres, turn, response, net,
                   given, hist, flight>>

\* list_tables answers the other request
OtherListTables ==
    /\ other.pc = "schema_list"
    /\ \E resp \in CallResponses :
         LET r == call_mcp_tool(tools, servers, "list_tables", resp)
             tables == extract_table_names_simple(r.result)
         IN  IF Len(tables) = 0
             THEN /\ schemas_cached' = TRUE
                  /\ other' = [other EXCEPT !.pc = "chat_prepare"]
             ELSE /\ schemas_cached' = schemas_cached
                  /\ other' = [other EXCEPT !.pc = "schema_describe",
                                            !.tables = tables]
    /\ UNCHANGED <<servers, tools, table_schemas, pc, disc, hp, callres, turn,
                   response, net, given, hist, flight>>

\* describe_table answers the other request
OtherDescribe ==
    /\ other.pc = "schema_describe"
    /\ \E resp \in CallResponses :
         LET table == Head(other.tables)
             r == call_mcp_tool(tools, servers, "describe_table", resp)
         IN  table_schemas' = IF Truthy(r.result)
                              THEN DictPut(table_schemas,
                                           [name |-> table, schema |-> r.result])
                              ELSE table_schemas
    /\ IF Len(other.tables) = 1
       THEN /\ schemas_cached' = TRUE
            /\ other' = [other EXCEPT !.pc = "chat_prepare", !.tables = <<>>]
       ELSE /\ schemas_cached' = schemas_cached
            /\ other' = [other EXCEPT !.tables = Tail(other.tables)]
    /\ UNCHANGED <<servers, tools, pc, disc, hp, callres, turn, response, net,
                   given, hist, flight>>

SchemaNext ==
    \/ GetTableSchemas
    \/ DiscoverStep
    \/ SchemaDiscovered
    \/ SchemaListTables
    \/ SchemaDescribe
    \/ OtherGetTableSchemas
    \/ OtherDiscoverStep
    \/ OtherListTables
    \/ OtherDescribe

SchemaSpec == SchemaInit /\ [][SchemaNext]_vars

-----------------------------------------------------------------------------
\* Construction scenario: MCPToolsManager.__init__ with any mcp.json.

\* most entries under "mcpServers"
MaxEntries == 3

ConfigNames == {"db", "weather", "meeting"}

\* an entry of "mcpServers": a dict, or a value that is none
ConfigEntries == [name : ConfigNames, shape : {"dict", "other"}]

\* mcp.json: absent, not JSON, JSON that is no object, or an object whose
\* "mcpServers" has entries under pairwise distinct names
ConfigFiles ==
    {[kind |-> k, entries |-> <<>>] : k \in {"missing", "unparsable", "not_object"}}
        \cup {[kind |-> "ok", entries |-> e] :
                 e \in {x \in SeqsUpTo(ConfigEntries, MaxEntries) :
                           \A i, j \in 1..Len(x) : x[i].name = x[j].name => i = j}}

\* __init__ up to the call of load_configuration
ConstructInit ==
    /\ servers = <<>>
    /\ tools = <<>>
    /\ schemas_cached = FALSE
    /\ table_schemas = <<>>
    /\ pc = "constructing"
    /\ disc = NoFrame
    /\ hp = NoHealth
    /\ callres = NoCall
    /\ turn = NoTurn
    /\ response = NoResponse
    /\ net = <<>>
    /\ \E config \in ConfigFiles : given = [NoGiven EXCEPT !.config = <<config>>]
    /\ other = NoOther
    /\ hist = NoHist
    /\ flight = {}

LoadConfiguration ==
    /\ pc = "constructing"
    /\ servers' = load_configuration(given.config[1])
    /\ pc' = "idle"
    /\ UNCHANGED <<scn, tools, app, disc, hp, callres, turn, response, net>>

ConstructNext == LoadConfiguration

ConstructSpec == ConstructInit /\ [][ConstructNext]_vars

-----------------------------------------------------------------------------
\* Request-level scenario: in discover_tools and check_servers_health the
\* sending of a request and the arrival of its answer (or the expiry of its
\* timeout) are two steps, with the request in `flight` between them.

FanInit ==
    /\ \E config \in Configs : servers = load_configuration(config)
    /\ tools = <<>>
    /\ schemas_cached = FALSE
    /\ table_schemas = <<>>
    /\ Quiet
    /\ given = NoGiven
    /\ other = NoOther
    /\ hist = NoHist
    /\ flight = {}

\* discover_tools reaches `await self._get_server_tools(server)`:
\* client.get(url, timeout=10.0) is sent for the provider the loop is at
ListRequestSent ==
    /\ pc = "discover"
    /\ DiscoverRunning
    /\ flight = {}
    /\ flight' = {ListRequest(servers[disc.i].name)}
    /\ net' = Append(net, ListRequest(servers[disc.i].name))
    /\ UNCHANGED <<servers, tools, app, pc, disc, hp, callres, turn, response,
                   given, other, hist>>

\* the awaited request answers or times out; the rest of the loop body runs
ListRequestAnswered ==
    /\ pc = "discover"
    /\ DiscoverRunning
    /\ flight = {ListRequest(servers[disc.i].name)}
    /\ \E resp \in ListResponses :
         LET server == servers[disc.i]
             one == DiscoverOne(tools, server, resp)
         IN  /\ tools' = one.tools
             /\ disc' = FrameAfter(disc, server, one)
    /\ flight' = {}
    /\ UNCHANGED <<servers, app, pc, hp, callres, turn, response, net,
                   given, other, hist>>

\* check_servers_health reaches `await client.get(url, timeout=5.0)` for the
\* provider the loop is at
ProbeSent ==
    /\ pc = "health"
    /\ HealthRunning
    /\ flight = {}
    /\ flight' = {HealthRequest(servers[hp.i].name)}
    /\ net' = Append(net, HealthRequest(servers[hp.i].name))
    /\ UNCHANGED <<servers, tools, app, pc, disc, hp, callres, turn, response,
                   given, other, hist>>

\* the awaited probe answers, raises or times out
ProbeAnswered ==
    /\ pc = "health"
    /\ HealthRunning
    /\ flight = {HealthRequest(servers[hp.i].name)}
    /\ \E resp \in HealthResponses : hp' = HealthAfter(hp, servers[hp.i], resp)
    /\ flight' = {}
    /\ UNCHANGED <<servers, tools, app, pc, disc, callres, turn, response, net,
                   given, other, hist>>

FanNext ==
    \/ DiscoverToolsCall
    \/ ListRequestSent
    \/ ListRequestAnswered
    \/ DiscoverToolsReturn
    \/ CheckServersHealthCall
    \/ ProbeSent
    \/ ProbeAnswered
    \/ CheckServersHealthReturn

FanSpec == FanInit /\ [][FanNext]_vars

-----------------------------------------------------------------------------
\* The broker on its own: the operations of MCPToolsManager called one after
\* the other, in any order, without a chat turn.

BrokerNext ==
    \/ DiscoverToolsCall
    \/ DiscoverStep
    \/ DiscoverToolsReturn
    \/ CallTool
    \/ CallToolReturn
    \/ AddServer
    \/ AddServerReturn
    \/ CheckServersHealthCall
    \/ HealthStep
    \/ CheckServersHealthReturn

BrokerSpec == Init /\ [][BrokerNext]_vars

-----------------------------------------------------------------------------
\* The program under a fair network and event loop: a request that is awaited
\* answers or runs into its timeout, and the coroutine awaiting it is resumed.

\* the steps of a chat turn that follow an await
TurnResumes ==
    \/ HealthStep
    \/ ChatHealthChecked
    \/ GetTableSchemas
    \/ DiscoverStep
    \/ SchemaDiscovered
    \/ SchemaListTables
    \/ SchemaDescribe
    \/ TurnPrepare
    \/ GetMcpTools
    \/ LlmCall
    \/ LlmFails
    \/ LlmReplies_
    \/ ToolRequested
    \/ ToolReturns

LiveSpec == Init /\ [][Next]_vars /\ WF_vars(TurnResumes)

-----------------------------------------------------------------------------
\* Properties.

\* names of the tools that this pass's all_tools reports, i.e. the tools
\* returned by the providers whose listing succeeded
ReturnedNames(all_tools) ==
    UNION {{all_tools[i].tools[j].name : j \in 1..Len(all_tools[i].tools)} :
             i \in 1..Len(all_tools)}

\* C1: after a completed discover_tools pass the catalog holds exactly the
\* tools returned in that pass by the providers whose listing succeeded.
C1_CatalogIsThisPass ==
    DiscoverDone => KeySet(tools) = ReturnedNames(disc.all_tools)

\* C2: a provider's failure never aborts the pass: no exception leaves
\* discover_tools, the loop reaches every provider of the registry in
\* registry order, and every tool of a provider that answered successfully
\* is in the catalog.
C2_FailureDoesNotAbort ==
    pc \in DiscoverPcs =>
        /\ ~disc.raised
        /\ ReturnedNames(disc.all_tools) \subseteq KeySet(tools)
        /\ DiscoverDone => DictKeys(disc.all_tools) = DictKeys(servers)

\* a pass with two providers is complete; one failed, the other returned tools
C2_Witness ==
    /\ DiscoverDone
    /\ Len(servers) = 2
    /\ Cardinality(disc.failed) = 1
    /\ ReturnedNames(disc.all_tools) # {}

\* the names a joined list enumerates
Enumerated(detail) == {detail[i] : i \in {j \in 1..Len(detail) : detail[j] # ", "}}

CallToolDone == pc = "call_done" /\ callres.op = "call_tool"

\* C3: call_tool for a name that is not in the catalog returns the not-found
\* text for that name, which lists each name of the catalog once and nothing
\* else; it raises nothing and sends no request.
C3_UnknownToolEnumerates ==
    (CallToolDone /\ ~DictHas(tools, callres.tool)) =>
        /\ ~callres.raised
        /\ callres.result.kind = "not_found"
        /\ callres.result.tool = callres.tool
        /\ Enumerated(callres.result.detail) = KeySet(tools)
        /\ Len(callres.result.detail) =
              IF tools = <<>> THEN 0 ELSE 2 * Len(tools) - 1
        /\ net = <<>>

\* an unknown name was asked of a catalog holding two tools
C3_Witness ==
    /\ CallToolDone
    /\ ~DictHas(tools, callres.tool)
    /\ Len(tools) = 2

\* a call-tool answer that is a failure: transport error, non-success status,
\* or an envelope without a first content item that carries a text
FailureAnswer(resp) ==
    \/ resp.kind \in {"transport", "status", "no_content"}
    \/ resp.kind = "ok" /\ Len(resp.content) = 0
    \/ resp.kind = "ok" /\ Len(resp.content) > 0 /\ resp.content[1].text = Missing

\* C4: for a tool of the catalog, call_tool never raises; it returns an error
\* text carrying the tool name and the cause when the provider's answer is a
\* failure, and the text of the first content item otherwise.
C4_CatalogToolNeverRaises ==
    (CallToolDone /\ DictHas(tools, callres.tool)) =>
        /\ ~callres.raised
        /\ callres.resp # NoResp
        /\ IF FailureAnswer(callres.resp)
           THEN /\ callres.result.kind = "error"
                /\ callres.result.tool = callres.tool
                /\ callres.result.detail # <<>>
           ELSE callres.result = Text(callres.resp.content[1].text)

\* C5: a completed check_servers_health pass maps every provider of the
\* registry, once and in registry order, to true when its probe answered
\* 200 and to false otherwise.
C5_HealthEntryPerProvider ==
    HealthDone =>
        /\ DictKeys(hp.health_status) = DictKeys(servers)
        /\ \A i \in 1..Len(servers) :
             hp.health_status[i].healthy = (hp.probes[i] = "200")

\* a pass over two providers saw a probe raise and a probe answer 200
C5_Witness ==
    /\ HealthDone
    /\ Len(servers) = 2
    /\ \E i, j \in 1..2 : hp.probes[i] = "raise" /\ hp.probes[j] = "200"

\* the chat endpoint answered a turn whose health pass found no healthy provider
RefusedTurn ==
    /\ pc = "chat_done"
    /\ Len(hp.health_status) > 0
    /\ ~AnyHealthy(hp.health_status)

\* C6: when every provider is unhealthy the caller receives success: false
\* with the service-unavailable text, and the LLM is not contacted.
C6_AllDownReportsUnavailable ==
    RefusedTurn =>
        /\ response.body.success = <<FALSE>>
        /\ response.body.message = <<Unavailable>>
        /\ \A i \in 1..Len(net) : net[i] # LlmRequest

HasKind(content, kind) == \E i \in 1..Len(content) : content[i].type = kind

\* the turn ended after call_mcp_tool returned for a reply that held both a
\* tool_use item and a text item
BothKindsDone ==
    pc = "chat_done" /\ turn.tool_use # <<>> /\ turn.text # <<>>

\* C7 as stated: with a tool_use item and a text item in the reply, the
\* message of the envelope is the tool result and not the text item's content.
C7_MessageIsToolResult ==
    BothKindsDone =>
        /\ turn.tool_result # <<>>
        /\ response.body.message = turn.tool_result
        /\ response.body.message # <<Text(turn.text[1].text)>>

\* C7 amended: a reply holding both kinds, in any order, goes to the tool
\* branch; the tool is called and the message is the tool result when that
\* result is not empty and the fixed greeting when it is, whatever the text
\* item holds.
C7_ToolWinsOverText ==
    /\ (HasKind(turn.reply, "tool_use") /\ HasKind(turn.reply, "text")) =>
          /\ pc = "tool_requested"
          /\ turn.tool_use # <<>>
          /\ turn.text # <<>>
          /\ response = NoResponse
    /\ BothKindsDone =>
          /\ turn.tool_result # <<>>
          /\ response.body.success = <<TRUE>>
          /\ response.body.message =
                IF Truthy(turn.tool_result[1]) THEN turn.tool_result
                ELSE <<Greeting>>

\* a reply with both kinds was answered with a non-empty tool result
C7_Witness ==
    /\ BothKindsDone
    /\ Truthy(turn.tool_result[1])
    /\ turn.text[1].text # EmptyText

\* the tools of the data-query class
QueryClass == {"execute_query", "get_table_data"}

\* the dispatcher returned a result (a non-empty text) for the requested tool
ToolResultDone ==
    /\ pc = "chat_done"
    /\ turn.tool_use # <<>>
    /\ turn.tool_result # <<>>
    /\ Truthy(turn.tool_result[1])

\* C8: when the LLM requests a tool and the dispatcher returns a result, the
\* envelope is success: true with exactly that result as the message and a
\* reasoning step whose category, header and content name the tool and its
\* arguments; a tool outside the data-query class gets no chart data.
C8_ToolEnvelope ==
    ToolResultDone =>
        /\ response.http = 200
        /\ response.body.success = <<TRUE>>
        /\ response.body.message = turn.tool_result
        /\ Len(response.body.reasoning_step) = 1
        /\ response.body.reasoning_step[1].type = "tool"
        /\ response.body.reasoning_step[1].header \in
              {"Database Operation", "Tool Operation"}
        /\ response.body.reasoning_step[1].content =
              [tool |-> turn.tool_use[1].name, args |-> ToolInput]
        /\ turn.tool_use[1].name \notin QueryClass =>
              response.body.chart_data = <<>>

\* list_tables was requested and answered with a table-shaped text
C8_Witness ==
    /\ ToolResultDone
    /\ turn.tool_use[1].name = "list_tables"
    /\ turn.tool_result = <<Text(RowsText)>>

\* the turn ended on a reply that holds text and no tool_use item
TextOnlyDone ==
    /\ pc = "chat_done"
    /\ HasKind(turn.reply, "text")
    /\ ~HasKind(turn.reply, "tool_use")

\* C9: a reply with text and no tool_use item yields success: true with that
\* text as the message, no reasoning step and no chart data, and the
\* dispatcher is not invoked after the reply.
C9_TextOnlyEnvelope ==
    TextOnlyDone =>
        /\ response.http = 200
        /\ response.body.success = <<TRUE>>
        /\ \E i \in 1..Len(turn.reply) :
             /\ turn.reply[i].type = "text"
             /\ response.body.message = <<Text(turn.reply[i].text)>>
        /\ response.body.reasoning_step = <<>>
        /\ response.body.chart_data = <<>>
        /\ turn.tool_result = <<>>
        /\ net[Len(net)] = LlmRequest

\* the LLM answered "Hello" and nothing else
C9_Witness ==
    /\ TextOnlyDone
    /\ Len(turn.reply) = 1
    /\ turn.reply[1].text = "Hello"

\* the LLM has replied in this turn and the turn is over
RepliedDone ==
    /\ pc = "chat_done"
    /\ \E i \in 1..Len(net) : net[i] = LlmRequest
    /\ response.body.success = <<TRUE>>

\* C10: the message of the envelope is never empty, and it is the fixed
\* greeting when the reply holds neither a tool_use nor a text item or when
\* the catalog was empty.
C10_NeverEmptyMessage ==
    /\ (pc = "chat_done" /\ response.http = 200) =>
          /\ Len(response.body.message) = 1
          /\ Truthy(response.body.message[1])
    /\ (RepliedDone /\ turn.tool_use = <<>> /\ turn.text = <<>>) =>
          response.body.message = <<Greeting>>
    /\ (RepliedDone /\ tools = <<>>) =>
          response.body.message = <<Greeting>>

\* the dispatcher answered the LLM's request with a failure text
ToolCallFailed ==
    /\ pc = "chat_done"
    /\ turn.tool_result # <<>>
    /\ turn.tool_result[1].kind \in {"error", "not_found"}

\* C11: a turn whose tool call failed ends with success: false and the
\* generic apology as its message; the cause of the failure is not in the
\* message and success: true is not reported.
C11_FailureGivesApology ==
    ToolCallFailed =>
        /\ response.body.success = <<FALSE>>
        /\ response.body.message = <<Apology>>

Min(a, b) == IF a < b THEN a ELSE b

\* the last k elements of seq
LastN(seq, k) == SubSeq(seq, Len(seq) - k + 1, Len(seq))

\* C12: for a conversation of length L and a configured maximum N, the LLM
\* receives exactly the last min(L, N) messages in their original order, and
\* the conversation handed in by the caller is unchanged.
C12_LlmGetsLastN ==
    (pc = "awaiting_llm" /\ given.max_turns # <<>>) =>
        /\ turn.llm_messages =
              LastN(turn.messages, Min(Len(turn.messages), given.max_turns[1]))
        /\ turn.messages = [i \in 1..Len(turn.messages) |-> i]

\* positions of a chat turn
ChatPcs ==
    {"chat_health", "chat_schemas", "schema_discover", "schema_list",
     "schema_describe", "chat_prepare", "turn_discover", "llm_discover",
     "awaiting_llm", "tool_requested", "tool_calling", "chat_done"}

\* requests of the operation in progress that went to a provider's call path
CallRequests == {i \in 1..Len(net) : net[i].op = "callTool"}

SecondPassDone == pc = "discover" /\ DiscoverDone /\ hist.first # <<>>

\* C14: with providers whose answers do not change, a discover_tools pass
\* that follows another leaves the catalog as the earlier pass left it and
\* returns the same per-provider results.
C14_DiscoveryIdempotent ==
    SecondPassDone =>
        /\ tools = hist.first[1].tools
        /\ disc.all_tools = hist.first[1].all_tools

\* the second pass over two providers is complete: one provider failed
\* part-way, the catalog holds tools of this pass and an older entry
C14_Witness ==
    /\ SecondPassDone
    /\ Len(servers) = 2
    /\ disc.failed # {}
    /\ ReturnedNames(disc.all_tools) # {}
    /\ KeySet(tools) # ReturnedNames(disc.all_tools)

\* C15: a request that reads the catalog while a discovery pass is running
\* sees the catalog as it was when the pass began or as it is when the pass
\* is complete, never one holding the tools of only some of the providers.
C15_ReaderSeesWholeCatalog ==
    (pc = "discover" /\ DiscoverDone /\ other.seen # <<>>) =>
        \/ other.seen[1] = hist.before[1]
        \/ other.seen[1] = tools

\* a request at position p is carrying out the schema discovery
InSchemaDiscovery(p) == p \in {"schema_discover", "schema_list", "schema_describe"}

\* C16: the schema cache is computed at most once: of the requests that
\* enter _get_table_schemas before the cache is filled only one carries out
\* the schema discovery, and no request carries it out once the cache is
\* filled.
C16_SchemaSingleFlight ==
    /\ ~(InSchemaDiscovery(pc) /\ InSchemaDiscovery(other.pc))
    /\ schemas_cached => ~(InSchemaDiscovery(pc) \/ InSchemaDiscovery(other.pc))

\* C17: nothing is retried: one call_tool sends at most one POST, to the
\* tool's provider, and a failed answer is returned as a failure text at
\* once; a discovery pass has sent one list request to each provider it has
\* reached, in registry order, and reports a failed provider with an empty
\* list; a health pass has sent one probe to each provider it has reached.
C17_NoRetry ==
    /\ CallToolDone =>
          /\ Len(net) <= 1
          /\ \A i \in 1..Len(net) :
                net[i] = [op |-> "callTool",
                          server |-> DictGet(tools, callres.tool).server_name,
                          tool |-> callres.tool]
          /\ (callres.resp # NoResp /\ FailureAnswer(callres.resp)) =>
                (Len(net) = 1 /\ callres.result.kind = "error")
    /\ pc = "discover" =>
          /\ net = [i \in 1..(disc.i - 1) |-> ListRequest(servers[i].name)]
          /\ \A i \in 1..Len(disc.all_tools) :
                servers[i].name \in disc.failed => disc.all_tools[i].tools = <<>>
    /\ pc = "health" =>
          /\ net = [i \in 1..(hp.i - 1) |-> HealthRequest(servers[i].name)]
          /\ Len(hp.probes) = hp.i - 1

\* call_tool got a non-success status from the provider and posted once
C17_Witness ==
    /\ CallToolDone
    /\ callres.resp.kind = "status"
    /\ Len(net) = 1
    /\ callres.result.kind = "error"

\* the providers, by registry position, whose answer in this pass held `name`
Returners(name) ==
    {i \in 1..Len(disc.all_tools) :
        \E j \in 1..Len(disc.all_tools[i].tools) :
            disc.all_tools[i].tools[j].name = name}

Last(S) == CHOOSE i \in S : \A j \in S : j <= i

\* no provider after position i failed in this pass
NoneFailedAfter(i) ==
    \A k \in (i + 1)..Len(servers) : servers[k].name \notin disc.failed

\* C18: tool names are unique keys of the catalog and the last writer wins:
\* after a pass in which providers returned the same name, the catalog has
\* one entry for it, tagged with the provider processed last among them; and
\* call_tool for a name sends its request to the provider the entry is tagged
\* with and to no other.
C18_LastWriterWins ==
    /\ Cardinality(KeySet(tools)) = Len(tools)
    /\ DiscoverDone =>
          \A name \in ReturnedNames(disc.all_tools) :
              NoneFailedAfter(Last(Returners(name))) =>
                  DictGet(tools, name).server_name =
                      servers[Last(Returners(name))].name
    /\ CallToolDone =>
          \A i \in 1..Len(net) :
              /\ net[i].op = "callTool"
              /\ net[i].server = DictGet(tools, callres.tool).server_name

\* both providers returned list_tables in one pass; the entry is weather's
C18_Witness ==
    /\ DiscoverDone
    /\ Len(servers) = 2
    /\ Returners("list_tables") = {1, 2}
    /\ DictGet(tools, "list_tables").server_name = servers[2].name

\* call_tool has run for a catalog tool whose provider is not in the registry
OwnerMissingCall ==
    /\ CallToolDone
    /\ DictHas(tools, callres.tool)
    /\ ~DictHas(servers, DictGet(tools, callres.tool).server_name)

\* C19: for a tool of the catalog whose owning provider is not in the
\* registry, call_tool raises nothing and returns the failure text it
\* returns for an unknown tool.
C19_OwnerMissingIsAMiss ==
    OwnerMissingCall =>
        /\ ~callres.raised
        /\ callres.result.kind = "not_found"
        /\ callres.result.tool = callres.tool

\* a configuration that fails to load or parse at some point
Malformed(config) ==
    \/ config.kind # "ok"
    \/ \E i \in 1..Len(config.entries) : config.entries[i].shape # "dict"

\* C20: after construction with a configuration that is missing or
\* malformed at any point, the registry is empty.
C20_BadConfigEmptyRegistry ==
    (pc = "idle" /\ given.config # <<>> /\ Malformed(given.config[1])) =>
        servers = <<>>

\* some provider of the running discovery pass has already answered
ListAnswerSeen == pc = "discover" /\ disc.i > 1

\* C21: in a discover_tools pass the list request to a provider is sent
\* without waiting for the answer or timeout of any other provider: no list
\* request is sent once a provider of the pass has answered.
C21_DiscoveryFansOut ==
    [][(pc = "discover" /\ Len(net') > Len(net)) => ~ListAnswerSeen]_vars

\* some probe of the running health pass has already ended
ProbeOutcomeSeen == pc = "health" /\ hp.i > 1

\* C22: in a check_servers_health pass the probe of a provider is sent
\* without waiting for the outcome of any other provider's probe: no probe
\* is sent once a probe of the pass has ended.
C22_HealthFansOut ==
    [][(pc = "health" /\ Len(net') > Len(net)) => ~ProbeOutcomeSeen]_vars

\* the response is an envelope: a dict with success and message, status 200
IsEnvelope(r) ==
    r.http = 200 /\ r.body.success # <<>> /\ r.body.message # <<>>

\* a chat turn is in progress: the endpoint has not answered yet
TurnInProgress == pc \in ChatPcs \ {"chat_done"}

\* a turn in progress is eventually answered
TurnTerminates == TurnInProgress ~> (pc = "chat_done")

\* the endpoint refused an empty conversation before any request was sent
EmptyRefused == pc = "chat_done" /\ hp = NoHealth /\ response.http # 200

\* C23: every chat turn terminates with a response envelope: under a fair
\* network, a turn in progress eventually reaches its end, and the response
\* that a turn with a conversation ends with is an envelope.
C23_TurnEndsWithEnvelope ==
    /\ []((pc = "chat_done" /\ ~EmptyRefused) => IsEnvelope(response))
    /\ TurnTerminates

\* a step in which call_tool runs from its entry to its return
CallToolRuns == pc = "idle" /\ pc' = "call_done"

\* C24: call_tool has no side effect on the broker: whatever the tool name
\* and the outcome (miss, failure, success), the registry and the catalog
\* are the same after the call as before it.
C24_CallToolNoSideEffect ==
    [][CallToolRuns => (servers' = servers /\ tools' = tools)]_vars

\* call_tool ran against a catalog of two tools and the provider was unreachable
C24_Witness ==
    /\ CallToolDone
    /\ callres.resp.kind = "transport"
    /\ callres.result.kind = "error"
    /\ Len(tools) = 2

\* the turn is over and the dispatcher was invoked for the LLM's request
ToolBranchDone ==
    pc = "chat_done" /\ turn.tool_use # <<>> /\ turn.tool_result # <<>>

\* C25: the envelope carries chart data if and only if the invoked tool is
\* of the data-query class and the chart utility returned a value for the
\* tool result, and then it carries that value; a turn without a tool call
\* carries none.
C25_ChartIffQueryClass ==
    /\ ToolBranchDone =>
          /\ (response.body.chart_data # <<>>) <=>
                /\ turn.tool_use[1].name \in QueryClass
                /\ generate_chart_data(turn.tool_result[1]) # <<>>
          /\ response.body.chart_data # <<>> =>
                response.body.chart_data = generate_chart_data(turn.tool_result[1])
    /\ (pc = "chat_done" /\ ~ToolBranchDone) => response.body.chart_data = <<>>

\* execute_query returned rows with a numeric column and the chart is attached
C25_Witness ==
    /\ ToolBranchDone
    /\ turn.tool_use[1].name = "execute_query"
    /\ turn.tool_result = <<Text(RowsText)>>
    /\ response.body.chart_data # <<>>

\* the step that sends the LLM request
LlmRequestSent == pc # "awaiting_llm" /\ pc' = "awaiting_llm"

\* C26: the LLM request is sent only after the truncation and a discovery
\* pass of the turn have completed, and the tool schemas sent with it are
\* the tools of the catalog, one per entry, none of them a tool of a
\* provider that failed in that pass.
C26_LlmGetsFreshCatalog ==
    [][LlmRequestSent =>
          /\ pc = "llm_discover"
          /\ DiscoverDone
          /\ \E max_turns \in MaxTurnsValues :
                turn.llm_messages = Truncate(turn.messages, max_turns)
          /\ net' = Append(net, LlmRequest)
          /\ turn'.claude_tools = DictKeys(tools)
          /\ \A i \in 1..Len(tools) : tools[i].server_name \notin disc.failed
      ]_vars

\* the first item of a kind in a content list that holds one
FirstOfKind(content, kind) ==
    content[CHOOSE i \in 1..Len(content) :
                /\ content[i].type = kind
                /\ \A j \in 1..(i - 1) : content[j].type # kind]

\* C27: of several tool_use items in the reply the first is the one
\* executed, and of several text items in a reply without tool_use the
\* first is the one returned as the message.
C27_FirstItemOfEachKind ==
    /\ HasKind(turn.reply, "tool_use") =>
          turn.tool_use = <<FirstOfKind(turn.reply, "tool_use")>>
    /\ TextOnlyDone =>
          response.body.message = <<Text(FirstOfKind(turn.reply, "text").text)>>

\* C28: every tool of the catalog names an owning provider that is in the
\* registry, whatever operations of the broker have run.
C28_CatalogOwnersRegistered ==
    \A i \in 1..Len(tools) : DictHas(servers, tools[i].server_name)

\* a step in which add_server runs, from its entry to its return, and its
\* list request fails
AddServerListFails ==
    /\ pc = "idle"
    /\ pc' = "add_done"
    /\ callres'.resp.kind = "fail"

\* C29: an add_server whose list request fails returns false and leaves the
\* registry and the catalog as they were before the call.
C29_FailedAddLeavesBroker ==
    [][AddServerListFails =>
          /\ ~callres'.ok
          /\ servers' = servers
          /\ tools' = tools
      ]_vars

\* _get_table_schemas has just returned in a turn in which it called
\* list_tables, and list_tables is no tool of the catalog: the call failed
ListTablesUnknown ==
    /\ pc = "chat_prepare"
    /\ turn.schema_calls = 1
    /\ ~DictHas(tools, "list_tables")

\* C30: the schema cache is marked as filled only after a successful schema
\* discovery: when list_tables fails during _get_table_schemas,
\* schemas_cached stays false.
C30_CacheOnlyAfterSuccess == ListTablesUnknown => ~schemas_cached

====
